---- MODULE Spec2Model ----
(***************************************************************************)
(* Sparse BOP-DMD (pydmd/sbopdmd.py, pydmd/sbopdmd_utils.py).              *)
(*                                                                         *)
(* Numbers.  A real number is an exact rational <<n, d>> in lowest terms,  *)
(* d > 0.  The three non-finite values numpy produces are kept apart, as   *)
(* IEEE-754 does: <<1, 0>> is +inf, <<-1, 0>> is -inf and <<0, 0>> is NaN. *)
(* A complex number is a pair <<re, im>> of reals.  A matrix is a sequence *)
(* of rows, each row a sequence of complex numbers: X[i][j] is numpy's     *)
(* X[i-1, j-1].  Square roots are exact: the inputs are drawn from sets on *)
(* which every norm the code takes is rational, and RSqrt has no value     *)
(* elsewhere (TLC stops with an error should a run leave these sets).      *)
(***************************************************************************)
EXTENDS Integers, Sequences, FiniteSets, TLC

VARIABLES
    pX,        \* primitives: the matrix the caller passed
    pGamma,    \* primitives: the step gamma the caller passed
    pOp,       \* primitives: name of the primitive applied last ("none" before)
    pCount,    \* primitives: how many times pOp was applied in a row
    pPrev,     \* primitives: argument of the last application
    pCur,      \* primitives: result of the last application
    pAmp,      \* primitives: amplitude vector b returned by split_B
    pDivZero,  \* primitives: the last application divided by a zero divisor
    self_mode_regularizer,    \* SparseBOPDMD._mode_regularizer
    self_mode_prox,           \* SparseBOPDMD._mode_prox
    self_regularizer_params,  \* SparseBOPDMD._regularizer_params
    arg_regularizer_params,   \* the regularizer_params the caller passed
    oState,    \* facade: "init" (fields stored), "built", or the error raised
    oWarned,   \* facade: the constructor issued its parameter warning
    callName,  \* facade: the method called last ("none" before any call)
    callX,     \* facade: its matrix argument
    callT,     \* facade: its scaling argument t (mode_prox)
    retNone,   \* facade: the call returned None
    retNum,    \* facade: the number mode_regularizer returned
    retMat,    \* facade: the matrix mode_prox returned
    fit_state, \* fit: "constructed", "varpro" (in the loop), "fitted", or the error
    X_shape,   \* fit: shape of the snapshot matrix X, <<features, snapshots>>
    t_shape,   \* fit: shape of the time vector t the caller passed
    self_time, \* SparseBOPDMD._time: its shape (<<"unset">> before fit)
    self_svd_rank,        \* SparseBOPDMD._svd_rank
    self_proj_basis,      \* SparseBOPDMD._proj_basis
    self_init_alpha,      \* SparseBOPDMD._init_alpha
    self_init_B,          \* SparseBOPDMD._init_B
    self_use_mask,        \* SparseBOPDMD._use_mask
    self_sampling_ratio,  \* SparseBOPDMD._sampling_ratio
    self_maxiter,         \* SparseBOPDMDOperator._maxiter
    self_tol,             \* SparseBOPDMDOperator._tol
    self_eps_stall,       \* SparseBOPDMDOperator._eps_stall
    self_Atilde,          \* SparseBOPDMD._Atilde: the operator was constructed
    self_unmasked_features,  \* SparseBOPDMDOperator._unmasked_features
    loop_B,      \* _variable_projection: the mode matrix B
    loop_alpha,  \* _variable_projection: the eigenvalue vector alpha
    itr,       \* _variable_projection: iterations completed
    all_obj,   \* _variable_projection: the written part of all_obj, entry 1 is all_obj[0]
    all_err,   \* _variable_projection: the written part of all_err, entry 1 is all_err[0]
    converged, \* _variable_projection: flag converged
    stalled,   \* _variable_projection: flag stalled
    retMask    \* fit: the array the mask property returned (<<>> before)

\* One call of _compute_alpha_levmarq, from its loop over lambda on.
VARIABLES
    lm_state,        \* "idle", "searching" (in the loop over j) or "returned"
    lm_init_lambda,  \* argument init_lambda
    lm_maxlam,       \* argument maxlam
    lm_lamup,        \* argument lamup
    lm_objective,    \* objective: the squared residual norm at alpha_0
    lm_j,            \* the loop variable j
    lm_tried,        \* the (alpha_new, objective_new) computed so far, in order
    lm_ret           \* the value returned

VARIABLE
    sampled_inds     \* _variable_projection: sampled_inds of the last iteration, as a set

\* One call of accelerated_prox_grad.
VARIABLES
    pg_state,         \* "idle", "running", "returned" or the exception raised
    pg_tol,           \* argument tol
    pg_max_iter,      \* argument max_iter
    pg_use_restarts,  \* argument use_restarts
    pg_X,             \* X
    pg_t,             \* the number of momentum updates since t was last 1.0
    pg_iter_count,    \* iter_count
    pg_err,           \* err
    pg_obj_hist,      \* the written part of obj_hist
    pg_err_hist,      \* the written part of err_hist
    pg_steps,         \* the number of calls of prox_g so far
    pg_ret            \* the value returned

VARIABLES
    init_alpha,           \* _variable_projection: the value of the array passed as init_alpha
    alpha_is_init_alpha   \* _variable_projection: whether alpha is that same array

pvars == <<pX, pGamma, pOp, pCount, pPrev, pCur, pAmp, pDivZero>>

ovars == <<self_mode_regularizer, self_mode_prox, self_regularizer_params,
           arg_regularizer_params, oState, oWarned>>

cvars == <<callName, callX, callT, retNone, retNum, retMat>>

fvars == <<fit_state, X_shape, t_shape, self_time, self_svd_rank, self_proj_basis,
           self_init_alpha, self_init_B, self_use_mask, self_sampling_ratio,
           self_maxiter, self_tol, self_eps_stall, self_Atilde,
           self_unmasked_features, loop_B, loop_alpha, itr, all_obj, all_err, converged,
           stalled, retMask, sampled_inds, init_alpha, alpha_is_init_alpha>>

lvars == <<lm_state, lm_init_lambda, lm_maxlam, lm_lamup, lm_objective, lm_j,
           lm_tried, lm_ret>>

gvars == <<pg_state, pg_tol, pg_max_iter, pg_use_restarts, pg_X, pg_t, pg_iter_count,
           pg_err, pg_obj_hist, pg_err_hist, pg_steps, pg_ret>>

vars == <<pvars, ovars, cvars, fvars, lvars, gvars>>

----------------------------------------------------------------------------
(* Bounds of the model. *)

\* Number of columns of the matrices handed to the primitives.
NCols == 2

\* How many times in a row a primitive is re-applied to its own result.
MaxApply == 2

----------------------------------------------------------------------------
(* Exact real arithmetic with IEEE non-finite values. *)

IAbs(n) == IF n < 0 THEN -n ELSE n

ISign(n) == IF n < 0 THEN -1 ELSE IF n > 0 THEN 1 ELSE 0

RECURSIVE Gcd(_, _)
Gcd(a, b) == IF b = 0 THEN a ELSE Gcd(b, a % b)

Lcm(a, b) == (a \div Gcd(a, b)) * b

NaN == <<0, 0>>
PInf == <<1, 0>>
Zero == <<0, 1>>
One == <<1, 1>>

IsNaN(a) == a = NaN
IsFinite(a) == a[2] # 0

\* The rational n/d in lowest terms with a positive denominator (d # 0).
Rat(n, d) ==
    LET g == Gcd(IAbs(n), IAbs(d))
        s == IF d < 0 THEN -1 ELSE 1
    IN  <<(s * n) \div g, (s * d) \div g>>

RNeg(a) == <<-a[1], a[2]>>

RAdd(a, b) ==
    IF IsNaN(a) \/ IsNaN(b) THEN NaN
    ELSE IF ~IsFinite(a) /\ ~IsFinite(b) THEN (IF a = b THEN a ELSE NaN)
    ELSE IF ~IsFinite(a) THEN a
    ELSE IF ~IsFinite(b) THEN b
    ELSE LET l == Lcm(a[2], b[2])
         IN  Rat(a[1] * (l \div a[2]) + b[1] * (l \div b[2]), l)

RSub(a, b) == RAdd(a, RNeg(b))

RMul(a, b) ==
    IF IsNaN(a) \/ IsNaN(b) THEN NaN
    ELSE IF ~IsFinite(a) \/ ~IsFinite(b)
         THEN <<ISign(a[1]) * ISign(b[1]), 0>>      \* inf * 0 = NaN
    ELSE LET g1 == Gcd(IAbs(a[1]), b[2])
             g2 == Gcd(IAbs(b[1]), a[2])
         IN  Rat((a[1] \div g1) * (b[1] \div g2), (a[2] \div g2) * (b[2] \div g1))

\* a / b as numpy divides: x/0 = +-inf, 0/0 = NaN, x/inf = 0.
RDiv(a, b) ==
    IF IsNaN(a) \/ IsNaN(b) THEN NaN
    ELSE IF ~IsFinite(b) THEN (IF IsFinite(a) THEN Zero ELSE NaN)
    ELSE IF b[1] = 0 THEN <<ISign(a[1]), 0>>
    ELSE RMul(a, <<ISign(b[1]) * b[2], IAbs(b[1])>>)

\* n1/d1 < n2/d2 for d1, d2 > 0, without forming the cross products (which
\* may exceed the integers TLC computes with): compare the integer parts,
\* then the reciprocals of the fractional parts.
RECURSIVE FracLt(_, _, _, _)
FracLt(n1, d1, n2, d2) ==
    LET q1 == n1 \div d1
        q2 == n2 \div d2
        r1 == n1 % d1
        r2 == n2 % d2
    IN  IF q1 # q2 THEN q1 < q2
        ELSE IF r2 = 0 THEN FALSE
        ELSE IF r1 = 0 THEN TRUE
        ELSE FracLt(d2, r2, d1, r1)

\* a < b; every comparison with NaN is false.
RLt(a, b) ==
    IF IsNaN(a) \/ IsNaN(b) THEN FALSE
    ELSE IF IsFinite(a) /\ IsFinite(b) THEN FracLt(a[1], a[2], b[1], b[2])
    ELSE IF ~IsFinite(a) /\ ~IsFinite(b) THEN a[1] < b[1]
    ELSE IF ~IsFinite(a) THEN a[1] < 0
    ELSE b[1] > 0

RLe(a, b) == ~IsNaN(a) /\ ~IsNaN(b) /\ ~RLt(b, a)

\* np.maximum: NaN if either argument is NaN.
RMax(a, b) ==
    IF IsNaN(a) \/ IsNaN(b) THEN NaN ELSE IF RLt(a, b) THEN b ELSE a

RMin(a, b) ==
    IF IsNaN(a) \/ IsNaN(b) THEN NaN ELSE IF RLt(b, a) THEN b ELSE a

RAbs(a) == <<IAbs(a[1]), a[2]>>

\* Integer square root: the k with k*k <= n < (k+1)^2, looked for between
\* the powers of ten that bracket it.
ISqrt(n) ==
    LET lo == IF n < 100 THEN 0 ELSE IF n < 10000 THEN 10
              ELSE IF n < 1000000 THEN 100 ELSE 1000
        hi == IF n < 100 THEN 9 ELSE IF n < 10000 THEN 99
              ELSE IF n < 1000000 THEN 999 ELSE 46340
    IN  CHOOSE k \in lo..hi : k * k <= n /\ (k = hi \/ (k + 1) * (k + 1) > n)

IsSquare(n) == n >= 0 /\ ISqrt(n) * ISqrt(n) = n

\* The rational has a rational square root.
HasRSqrt(a) == ~IsFinite(a) \/ (IsSquare(a[1]) /\ IsSquare(a[2]))

\* Exact square root; defined on the perfect squares only.
RSqrt(a) ==
    IF IsNaN(a) THEN NaN
    ELSE IF ~IsFinite(a) THEN (IF a[1] > 0 THEN PInf ELSE NaN)
    ELSE CHOOSE r \in {<<ISqrt(a[1]), ISqrt(a[2])>>} : RMul(r, r) = a

----------------------------------------------------------------------------
(* Complex numbers and matrices. *)

CZero == <<Zero, Zero>>

\* The complex number re + im*j with integer parts.
CInt(re, im) == <<Rat(re, 1), Rat(im, 1)>>

CAdd(z, w) == <<RAdd(z[1], w[1]), RAdd(z[2], w[2])>>

\* numpy promotes the real factor r to r + 0j and multiplies as complex.
CMulR(z, r) ==
    <<RSub(RMul(z[1], r), RMul(z[2], Zero)), RAdd(RMul(z[1], Zero), RMul(z[2], r))>>

\* |z|^2, the sum the modulus is the root of.
CAbs2(z) == RAdd(RMul(z[1], z[1]), RMul(z[2], z[2]))

\* np.abs of a complex number.
CAbs(z) == RSqrt(CAbs2(z))

\* z != 0.0 (true of a NaN).
CNonZero(z) == z[1] # Zero \/ z[2] # Zero

CIsFinite(z) == IsFinite(z[1]) /\ IsFinite(z[2])

\* z / r for a real divisor r.
CDivR(z, r) == <<RDiv(z[1], r), RDiv(z[2], r)>>

\* The sequence a function over 1..n stands for, computed once (TLC would
\* otherwise evaluate the function's body again at each use).
Tup(f) == Tail(<<0>> \o f)

NRowsOf(X) == Len(X)
NColsOf(X) == IF Len(X) = 0 THEN 0 ELSE Len(X[1])

RECURSIVE RSumSeq(_)
RSumSeq(s) == IF Len(s) = 0 THEN Zero ELSE RAdd(s[1], RSumSeq(Tail(s)))

RECURSIVE CSumSeq(_)
CSumSeq(s) == IF Len(s) = 0 THEN CZero ELSE CAdd(s[1], CSumSeq(Tail(s)))

RECURSIVE RMaxSeq(_)
RMaxSeq(s) == IF Len(s) = 1 THEN s[1] ELSE RMax(s[1], RMaxSeq(Tail(s)))

\* All entries of X in one sequence (row after row).
RECURSIVE Flatten(_)
Flatten(X) == IF Len(X) = 0 THEN <<>> ELSE X[1] \o Flatten(Tail(X))

\* np.linalg.norm(X, 2, axis=0): the Euclidean norm of each column.
ColNorms(X) ==
    Tup([j \in 1..NColsOf(X) |->
            RSqrt(RSumSeq(Tup([i \in 1..NRowsOf(X) |-> CAbs2(X[i][j])])))])

\* np.linalg.norm(B, axis=1): the Euclidean norm of each row.
RowNorms(X) ==
    Tup([i \in 1..NRowsOf(X) |->
            RSqrt(RSumSeq(Tup([j \in 1..NColsOf(X) |-> CAbs2(X[i][j])])))])

MatIsFinite(X) ==
    \A i \in 1..NRowsOf(X) : \A j \in 1..NColsOf(X) : CIsFinite(X[i][j])

\* X.dot(np.diag(v)): entry (i, k) is the sum over j of X[i, j] * D[j, k].
DotDiagRight(X, v) ==
    Tup([i \in 1..NRowsOf(X) |->
        Tup([k \in 1..NColsOf(X) |->
            CSumSeq(Tup([j \in 1..NColsOf(X) |->
                CMulR(X[i][j], IF j = k THEN v[j] ELSE Zero)]))])])

\* np.diag(v).dot(B): entry (i, k) is the sum over j of D[i, j] * B[j, k].
DotDiagLeft(v, B) ==
    Tup([i \in 1..NRowsOf(B) |->
        Tup([k \in 1..NColsOf(B) |->
            CSumSeq(Tup([j \in 1..NRowsOf(B) |->
                CMulR(B[j][k], IF j = i THEN v[j] ELSE Zero)]))])])

\* scalar * matrix for a real scalar.
ScaleMat(r, X) ==
    Tup([i \in 1..NRowsOf(X) |-> Tup([j \in 1..NColsOf(X) |-> CMulR(X[i][j], r)])])

----------------------------------------------------------------------------
(* sbopdmd_utils.py: norms. *)

L0_norm(X) ==
    Rat(Cardinality({p \in (1..NRowsOf(X)) \X (1..NColsOf(X)) :
                        CNonZero(X[p[1]][p[2]])}), 1)

L1_norm(X) ==
    LET f == Flatten(X)
    IN  RSumSeq(Tup([k \in 1..Len(f) |-> CAbs(f[k])]))

L2_norm(X) == RSumSeq(ColNorms(X))

\* np.abs(X) ** 2 squares the modulus np.abs has taken.
L2_norm_squared(X) ==
    LET f == Flatten(X)
    IN  RSumSeq(Tup([k \in 1..Len(f) |-> RMul(CAbs(f[k]), CAbs(f[k]))]))

----------------------------------------------------------------------------
(* sbopdmd_utils.py: sign and the proximal operators. *)

\* sign: x / |x| at the entries with x != 0.0, 0 elsewhere.
sign(X) ==
    Tup([i \in 1..NRowsOf(X) |->
        Tup([j \in 1..NColsOf(X) |->
            IF CNonZero(X[i][j]) THEN CDivR(X[i][j], CAbs(X[i][j])) ELSE CZero])])

\* The divisors sign uses: |x| at the entries selected by x != 0.0.
signDivisors(X) ==
    {CAbs(X[p[1]][p[2]]) : p \in {q \in (1..NRowsOf(X)) \X (1..NColsOf(X)) :
                                     CNonZero(X[q[1]][q[2]])}}

\* Mutant of hard_threshold: the soft threshold in its place.
hard_threshold_shrinking(X, gamma) ==
    LET a(z) == CAbs(z)
    IN  Tup([i \in 1..NRowsOf(X) |->
            Tup([j \in 1..NColsOf(X) |->
                IF CNonZero(X[i][j])
                THEN CMulR(CDivR(X[i][j], a(X[i][j])),
                           RMax(RSub(a(X[i][j]), gamma), Zero))
                ELSE CZero])])

hard_threshold(X, gamma) ==
    Tup([i \in 1..NRowsOf(X) |->
        Tup([j \in 1..NColsOf(X) |->
            IF RLt(RMul(CAbs(X[i][j]), CAbs(X[i][j])), RMul(Rat(2, 1), gamma))
            THEN CZero ELSE X[i][j]])])

soft_threshold(X, gamma) ==
    LET signs == sign(X)
    IN  Tup([i \in 1..NRowsOf(X) |->
            Tup([j \in 1..NColsOf(X) |->
                CMulR(signs[i][j], RMax(RSub(CAbs(X[i][j]), gamma), Zero))])])

\* col_norms after "col_norms[inds_small] = 1.0": the divisors of gamma.
groupLassoDivisors(X, gamma) ==
    LET norms == ColNorms(X)
    IN  Tup([j \in 1..NColsOf(X) |->
                IF RLt(norms[j], gamma) THEN One ELSE norms[j]])

\* Mutant of group_lasso: "<=" for "<" in the test for a small column.
group_lasso_le(X, gamma) ==
    LET norms      == ColNorms(X)
        inds_small == Tup([j \in 1..NColsOf(X) |-> RLe(norms[j], gamma)])
        col_norms  == Tup([j \in 1..NColsOf(X) |->
                              IF inds_small[j] THEN One ELSE norms[j]])
        X_thres    == Tup([i \in 1..NRowsOf(X) |->
                          Tup([j \in 1..NColsOf(X) |->
                              IF inds_small[j] THEN CZero ELSE X[i][j]])])
    IN  DotDiagRight(X_thres,
            Tup([j \in 1..NColsOf(X) |-> RSub(One, RDiv(gamma, col_norms[j]))]))

group_lasso(X, gamma) ==
    LET norms      == ColNorms(X)
        inds_small == Tup([j \in 1..NColsOf(X) |-> RLt(norms[j], gamma)])
        col_norms  == groupLassoDivisors(X, gamma)
        X_thres    == Tup([i \in 1..NRowsOf(X) |->
                          Tup([j \in 1..NColsOf(X) |->
                              IF inds_small[j] THEN CZero ELSE X[i][j]])])
    IN  DotDiagRight(X_thres,
            Tup([j \in 1..NColsOf(X) |-> RSub(One, RDiv(gamma, col_norms[j]))]))

\* Mutant of scaled_hard_threshold: the base step is gamma * alpha, not
\* (gamma * alpha) / scale.
scaled_hard_threshold_unadjusted(X, gamma, alpha, beta) ==
    LET scale == RDiv(One, RAdd(One, RMul(RMul(Rat(2, 1), gamma), beta)))
    IN  ScaleMat(scale, hard_threshold(X, RMul(gamma, alpha)))

scaled_hard_threshold(X, gamma, alpha, beta) ==
    LET scale == RDiv(One, RAdd(One, RMul(RMul(Rat(2, 1), gamma), beta)))
    IN  ScaleMat(scale, hard_threshold(X, RDiv(RMul(gamma, alpha), scale)))

scaled_soft_threshold(X, gamma, alpha, beta) ==
    LET scale == RDiv(One, RAdd(One, RMul(RMul(Rat(2, 1), gamma), beta)))
    IN  ScaleMat(scale, soft_threshold(X, RMul(gamma, alpha)))

----------------------------------------------------------------------------
(* sbopdmd_utils.py: split_B and get_nonzero_cols. *)

\* np.finfo(float).eps is 2^-EpsBits.
EpsBits == 52

\* get_nonzero_cols' default tolerance is 10^-TolDigits.
TolDigits == 16

\* ceil(n / base^k), by divisions rounded up (n >= 0, base <= 10): four
\* powers of the base at a time, and no further once the quotient is 0 or 1,
\* which further divisions leave as it is.
RECURSIVE CeilShift(_, _, _)
CeilShift(n, base, k) ==
    LET b4 == base * base * base * base
    IN  IF k = 0 \/ n <= 1 THEN n
        ELSE IF k >= 4 THEN CeilShift((n + b4 - 1) \div b4, base, k - 4)
        ELSE CeilShift((n + base - 1) \div base, base, k - 1)

\* a < c * base^-k * m, exactly, for reals a, m >= 0 and an integer c > 0:
\* with a = n1/d1 and m = n2/d2 this is n1*d2*base^k < c*n2*d1, that is
\* n1*d2 < ceil(c*n2*d1 / base^k).
LtScaled(a, c, base, k, m) ==
    IF IsNaN(a) \/ IsNaN(m) THEN FALSE
    ELSE IF ~IsFinite(a) THEN FALSE
    ELSE IF ~IsFinite(m) THEN m[1] > 0
    ELSE a[1] * m[2] < CeilShift(c * m[1] * a[2], base, k)   \* small operands

\* b after "b[inds_small] = 1.0": the divisors of 1 / b.
splitBDivisors(B) ==
    LET b    == RowNorms(B)
        maxb == RMaxSeq(b)
    IN  Tup([i \in 1..NRowsOf(B) |->
                IF LtScaled(RAbs(b[i]), 10, 2, EpsBits, maxb) THEN One ELSE b[i]])

\* split_B returns the pair (B_normalized, b).
split_B(B) ==
    LET b0         == RowNorms(B)
        maxb       == RMaxSeq(b0)
        inds_small == Tup([i \in 1..NRowsOf(B) |->
                          LtScaled(RAbs(b0[i]), 10, 2, EpsBits, maxb)])
        b1         == splitBDivisors(B)
        Bn         == DotDiagLeft(Tup([i \in 1..NRowsOf(B) |-> RDiv(One, b1[i])]), B)
    IN  << Tup([i \in 1..NRowsOf(B) |->
               IF inds_small[i] THEN Tup([j \in 1..NColsOf(B) |-> CZero]) ELSE Bn[i]]),
           Tup([i \in 1..NRowsOf(B) |-> IF inds_small[i] THEN Zero ELSE b1[i]]) >>

\* Mutant of get_nonzero_cols: every column counts as nonzero.
get_nonzero_cols_all(X) == 1..NColsOf(X)

\* get_nonzero_cols: the columns with an entry of modulus >= tol.
get_nonzero_cols(X) ==
    {j \in 1..NColsOf(X) :
        \E i \in 1..NRowsOf(X) :
            /\ ~LtScaled(CAbs(X[i][j]), 1, 10, TolDigits, One)
            /\ CNonZero(X[i][j])}

----------------------------------------------------------------------------
(* The primitives applied to inputs drawn from bounded sets. *)

\* Columns of two entries whose Euclidean norm is rational.
PrimCols ==
    { <<CInt(0, 0), CInt(0, 0)>>,
      <<CInt(1, 0), CInt(0, 0)>>,
      <<CInt(0, 0), CInt(0, 1)>>,
      <<CInt(2, 0), CInt(0, 0)>>,
      <<CInt(3, 0), CInt(0, 4)>>,
      <<CInt(4, 0), CInt(0, 3)>>,
      <<CInt(-3, -4), CInt(0, 0)>>,
      <<CInt(-6, 0), CInt(0, -8)>> }

\* The matrix with the given sequence of columns.
FromCols(cs) == Tup([i \in 1..Len(cs[1]) |-> Tup([j \in 1..Len(cs) |-> cs[j][i]])])

PrimInputs == {FromCols(cs) : cs \in [1..NCols -> PrimCols]}

\* Steps gamma >= 0.
Gammas == {Zero, Rat(1, 2), One, Rat(2, 1), Rat(5, 1)}

\* Every row norm of X is rational (split_B takes them).
RowsRational(X) ==
    \A i \in 1..NRowsOf(X) :
        HasRSqrt(RSumSeq(Tup([j \in 1..NColsOf(X) |-> CAbs2(X[i][j])])))

\* The variables of the other parts, at rest.
IdlePrim ==
    /\ pX = <<>>
    /\ pGamma = Zero
    /\ pOp = "none"
    /\ pCount = 0
    /\ pPrev = <<>>
    /\ pCur = <<>>
    /\ pAmp = <<>>
    /\ pDivZero = FALSE

IdleFacade ==
    /\ self_mode_regularizer = [kind |-> "None", name |-> ""]
    /\ self_mode_prox = [kind |-> "None", name |-> ""]
    /\ self_regularizer_params = [none |-> TRUE, dict |-> <<>>]
    /\ arg_regularizer_params = [none |-> TRUE, dict |-> <<>>]
    /\ oState = "idle"
    /\ oWarned = FALSE
    /\ callName = "none"
    /\ callX = <<>>
    /\ callT = Zero
    /\ retNone = FALSE
    /\ retNum = Zero
    /\ retMat = <<>>

\* Before any fit: nothing of fit or of the variable projection is set.
IdleFit ==
    /\ fit_state = "idle"
    /\ X_shape = <<>>
    /\ t_shape = <<>>
    /\ self_time = <<"unset">>
    /\ self_svd_rank = 0
    /\ self_proj_basis = [kind |-> "None"]
    /\ self_init_alpha = [kind |-> "None"]
    /\ self_init_B = [none |-> TRUE, val |-> <<>>]
    /\ self_use_mask = FALSE
    /\ self_sampling_ratio = One
    /\ self_maxiter = 0
    /\ self_tol = Zero
    /\ self_eps_stall = Zero
    /\ self_Atilde = FALSE
    /\ self_unmasked_features = [none |-> TRUE, inds |-> {}]
    /\ loop_B = <<>>
    /\ loop_alpha = "unset"
    /\ itr = 0
    /\ all_obj = <<>>
    /\ all_err = <<>>
    /\ converged = FALSE
    /\ stalled = FALSE
    /\ retMask = <<>>
    /\ sampled_inds = {}
    /\ init_alpha = "unset"
    /\ alpha_is_init_alpha = FALSE

\* No Levenberg-Marquardt update is under way.
IdleLevMarq ==
    /\ lm_state = "idle"
    /\ lm_init_lambda = Zero
    /\ lm_maxlam = 0
    /\ lm_lamup = Zero
    /\ lm_objective = Zero
    /\ lm_j = 0
    /\ lm_tried = <<>>
    /\ lm_ret = [from |-> "none", lam |-> Zero, pushed |-> FALSE]

\* No proximal-gradient solve is under way.
IdleProxGrad ==
    /\ pg_state = "idle"
    /\ pg_tol = Zero
    /\ pg_max_iter = 0
    /\ pg_use_restarts = FALSE
    /\ pg_X = Zero
    /\ pg_t = 0
    /\ pg_iter_count = 0
    /\ pg_err = Zero
    /\ pg_obj_hist = <<>>
    /\ pg_err_hist = <<>>
    /\ pg_steps = 0
    /\ pg_ret = <<>>

InitPrim ==
    /\ IdleFacade
    /\ IdleFit
    /\ IdleLevMarq
    /\ IdleProxGrad
    /\ pX \in PrimInputs
    /\ pGamma \in Gammas
    /\ pOp = "none"
    /\ pCount = 0
    /\ pPrev = pX
    /\ pCur = pX
    /\ pAmp = <<>>
    /\ pDivZero = FALSE

\* The caller may apply `op` now: to the input, or again to its own result.
CanApply(op) ==
    /\ pOp \in {"none", op}
    /\ pCount < MaxApply
    /\ MatIsFinite(pCur)

Applied(op, result, amp, divzero) ==
    /\ pOp' = op
    /\ pCount' = pCount + 1
    /\ pPrev' = pCur
    /\ pCur' = result
    /\ pAmp' = amp
    /\ pDivZero' = divzero
    /\ UNCHANGED <<pX, pGamma, ovars, cvars, fvars, lvars, gvars>>

ApplySign ==
    /\ CanApply("sign")
    /\ Applied("sign", sign(pCur), <<>>, Zero \in signDivisors(pCur))

ApplyHardThreshold ==
    /\ CanApply("hard_threshold")
    /\ Applied("hard_threshold", hard_threshold(pCur, pGamma), <<>>, FALSE)

ApplySoftThreshold ==
    /\ CanApply("soft_threshold")
    /\ Applied("soft_threshold", soft_threshold(pCur, pGamma), <<>>,
               Zero \in signDivisors(pCur))

ApplyGroupLasso ==
    /\ CanApply("group_lasso")
    /\ Applied("group_lasso", group_lasso(pCur, pGamma), <<>>,
               \E j \in 1..NColsOf(pCur) : groupLassoDivisors(pCur, pGamma)[j] = Zero)

ApplySplitB ==
    /\ CanApply("split_B")
    /\ RowsRational(pCur)
    /\ LET r == split_B(pCur)
       IN  Applied("split_B", r[1], r[2],
               \E i \in 1..NRowsOf(pCur) : splitBDivisors(pCur)[i] = Zero)

NextPrim ==
    \/ ApplySign
    \/ ApplyHardThreshold
    \/ ApplySoftThreshold
    \/ ApplyGroupLasso
    \/ ApplySplitB

SpecPrim == InitPrim /\ [][NextPrim]_vars

----------------------------------------------------------------------------
(* sbopdmd.py: SparseBOPDMD, construction and the regularizer dispatch. *)

\* Python values a caller may pass for mode_regularizer and mode_prox.
StrArg(n) == [kind |-> "str", name |-> n]
NoneArg == [kind |-> "None", name |-> ""]
\* A plain function (def or lambda): inspect.isfunction is true of it.
FunctionArg == [kind |-> "function", name |-> "user"]
\* A callable that is no plain function (a functools.partial, an object
\* with __call__): inspect.isfunction is false of it.
CallableArg == [kind |-> "callable", name |-> "user"]

isinstance_str(a) == a.kind = "str"
isfunction(a) == a.kind = "function"

supported_regularizers == {"l0", "l1", "l2", "l02", "l12"}

\* The user's own pair, when one is passed: g(X) = 3 * ||X||_1 with a prox
\* that returns its argument (what a caller is free to supply).
UserRegularizer(X) == RMul(Rat(3, 1), L1_norm(X))
UserProx(X, t) == X

\* Default values of the regularizer parameters.
DefaultLambda == One
DefaultLambda2 == Rat(1, 1000000)

\* regularizer_params after the constructor filled the missing keys.
FilledParams(params) ==
    LET d0 == IF params.none THEN <<>> ELSE params.dict
        d1 == IF "lambda" \in DOMAIN d0 THEN d0
              ELSE [k \in DOMAIN d0 \cup {"lambda"} |->
                       IF k = "lambda" THEN DefaultLambda ELSE d0[k]]
        d2 == IF "lambda_2" \in DOMAIN d1 THEN d1
              ELSE [k \in DOMAIN d1 \cup {"lambda_2"} |->
                       IF k = "lambda_2" THEN DefaultLambda2 ELSE d1[k]]
    IN  [none |-> FALSE, dict |-> d2]

\* Mutant of ConstructorError: the check for a missing mode_prox left out.
ConstructorError_no_prox_check ==
    IF isinstance_str(self_mode_regularizer)
       /\ self_mode_regularizer.name \notin supported_regularizers
    THEN "ValueError"
    ELSE "none"

\* The constructor's two validity checks; the error each raises.
ConstructorError ==
    IF isinstance_str(self_mode_regularizer)
       /\ self_mode_regularizer.name \notin supported_regularizers
    THEN "ValueError"
    ELSE IF isfunction(self_mode_regularizer) /\ self_mode_prox.kind = "None"
    THEN "ValueError"
    ELSE "none"

\* SparseBOPDMD.__init__ from the validity checks on (the fields are stored).
Construct ==
    /\ oState = "init"
    /\ IF ConstructorError # "none"
       THEN /\ oState' = ConstructorError
            /\ UNCHANGED <<self_regularizer_params, oWarned>>
       ELSE /\ oState' = "built"
            /\ self_regularizer_params' = FilledParams(self_regularizer_params)
            /\ oWarned' = (DOMAIN FilledParams(self_regularizer_params).dict
                              \ {"lambda", "lambda_2"} # {})
    /\ UNCHANGED <<self_mode_regularizer, self_mode_prox, arg_regularizer_params,
                   pvars, cvars, fvars, lvars, gvars>>

\* What a call returns: None, or a value.
RetNone == [none |-> TRUE, val |-> <<>>]
RetVal(v) == [none |-> FALSE, val |-> v]

\* Mutant of mode_regularizer: "l12" scales its second term by lambda.
mode_regularizer_l12_lambda(X) ==
    LET lambda   == self_regularizer_params.dict["lambda"]
        preset   == IF isinstance_str(self_mode_regularizer)
                    THEN self_mode_regularizer.name ELSE ""
    IN  IF isfunction(self_mode_regularizer) THEN RetVal(UserRegularizer(X))
        ELSE IF preset = "l0" THEN RetVal(RMul(lambda, L0_norm(X)))
        ELSE IF preset = "l1" THEN RetVal(RMul(lambda, L1_norm(X)))
        ELSE IF preset = "l2" THEN RetVal(RMul(lambda, L2_norm(X)))
        ELSE IF preset = "l02"
             THEN RetVal(RAdd(RMul(lambda, L0_norm(X)),
                              RMul(lambda, L2_norm_squared(X))))
        ELSE IF preset = "l12"
             THEN RetVal(RAdd(RMul(lambda, L1_norm(X)),
                              RMul(lambda, L2_norm_squared(X))))
        ELSE RetNone

mode_regularizer(X) ==
    LET lambda   == self_regularizer_params.dict["lambda"]
        lambda_2 == self_regularizer_params.dict["lambda_2"]
        preset   == IF isinstance_str(self_mode_regularizer)
                    THEN self_mode_regularizer.name ELSE ""
    IN  IF isfunction(self_mode_regularizer) THEN RetVal(UserRegularizer(X))
        ELSE IF preset = "l0" THEN RetVal(RMul(lambda, L0_norm(X)))
        ELSE IF preset = "l1" THEN RetVal(RMul(lambda, L1_norm(X)))
        ELSE IF preset = "l2" THEN RetVal(RMul(lambda, L2_norm(X)))
        ELSE IF preset = "l02"
             THEN RetVal(RAdd(RMul(lambda, L0_norm(X)),
                              RMul(lambda_2, L2_norm_squared(X))))
        ELSE IF preset = "l12"
             THEN RetVal(RAdd(RMul(lambda, L1_norm(X)),
                              RMul(lambda_2, L2_norm_squared(X))))
        ELSE RetNone

\* Mutant of mode_prox: the presets' steps are lambda, not lambda * t.
mode_prox_unscaled_step(X, t) ==
    LET lambda   == self_regularizer_params.dict["lambda"]
        lambda_2 == self_regularizer_params.dict["lambda_2"]
        preset   == IF isinstance_str(self_mode_regularizer)
                    THEN self_mode_regularizer.name ELSE ""
    IN  IF isfunction(self_mode_prox) THEN RetVal(UserProx(X, t))
        ELSE IF preset = "l0" THEN RetVal(hard_threshold(X, lambda))
        ELSE IF preset = "l1" THEN RetVal(soft_threshold(X, lambda))
        ELSE IF preset = "l2" THEN RetVal(group_lasso(X, lambda))
        ELSE IF preset = "l02"
             THEN RetVal(scaled_hard_threshold(X, t, lambda, lambda_2))
        ELSE IF preset = "l12"
             THEN RetVal(scaled_soft_threshold(X, t, lambda, lambda_2))
        ELSE RetNone

mode_prox(X, t) ==
    LET lambda   == self_regularizer_params.dict["lambda"]
        lambda_2 == self_regularizer_params.dict["lambda_2"]
        preset   == IF isinstance_str(self_mode_regularizer)
                    THEN self_mode_regularizer.name ELSE ""
    IN  IF isfunction(self_mode_prox) THEN RetVal(UserProx(X, t))
        ELSE IF preset = "l0" THEN RetVal(hard_threshold(X, RMul(lambda, t)))
        ELSE IF preset = "l1" THEN RetVal(soft_threshold(X, RMul(lambda, t)))
        ELSE IF preset = "l2" THEN RetVal(group_lasso(X, RMul(lambda, t)))
        ELSE IF preset = "l02"
             THEN RetVal(scaled_hard_threshold(X, t, lambda, lambda_2))
        ELSE IF preset = "l12"
             THEN RetVal(scaled_soft_threshold(X, t, lambda, lambda_2))
        ELSE RetNone

\* Columns for the matrices handed to the two methods.
FacadeCols ==
    { <<CInt(0, 0), CInt(0, 0)>>,
      <<CInt(1, 0), CInt(0, 0)>>,
      <<CInt(3, 0), CInt(0, 4)>>,
      <<CInt(-6, 0), CInt(0, -8)>> }

\* The matrix of the tests, A = [[-100,-1,0,1,100],[-100j,-1j,0,1j,100j]],
\* with each column turned to a rational norm (100, 1, 0, 1, 100).
TestA ==
    FromCols(<< <<CInt(-60, 0), CInt(0, -80)>>,
                <<<<Rat(-3, 5), Zero>>, <<Zero, Rat(-4, 5)>>>>,
                <<CInt(0, 0), CInt(0, 0)>>,
                <<<<Rat(3, 5), Zero>>, <<Zero, Rat(4, 5)>>>>,
                <<CInt(60, 0), CInt(0, 80)>> >>)

FacadeInputs == {FromCols(cs) : cs \in [1..2 -> FacadeCols]} \cup {TestA}

\* Scalings t >= 0 handed to mode_prox.
ProxSteps == {Zero, Rat(1, 2), One}

\* regularizer_params a caller may pass: None, or a dictionary.
ParamDicts ==
    UNION {[K -> {Rat(5, 1)}] : K \in SUBSET {"lambda", "lambda_2", "mu"}}

ParamArgs ==
    {[none |-> TRUE, dict |-> <<>>]} \cup {[none |-> FALSE, dict |-> d] : d \in ParamDicts}

RegularizerArgs ==
    {NoneArg, FunctionArg, CallableArg}
        \cup {StrArg(n) : n \in supported_regularizers \cup {"invalid_name"}}

ProxArgs == {NoneArg, FunctionArg, CallableArg}

InitFacade ==
    /\ IdlePrim
    /\ IdleFit
    /\ IdleLevMarq
    /\ IdleProxGrad
    /\ self_mode_regularizer \in RegularizerArgs
    /\ self_mode_prox \in ProxArgs
    /\ arg_regularizer_params \in ParamArgs
    /\ self_regularizer_params = arg_regularizer_params
    /\ oState = "init"
    /\ oWarned = FALSE
    /\ callName = "none"
    /\ callX = <<>>
    /\ callT = Zero
    /\ retNone = FALSE
    /\ retNum = Zero
    /\ retMat = <<>>

\* The two methods read the object and change nothing of it, so a run
\* records one call: a second call would find the object as the first did.
CallModeRegularizer ==
    /\ oState = "built"
    /\ callName = "none"
    /\ \E X \in FacadeInputs :
        LET r == mode_regularizer(X)
        IN  /\ callName' = "mode_regularizer"
            /\ callX' = X
            /\ callT' = Zero
            /\ retNone' = r.none
            /\ retNum' = IF r.none THEN Zero ELSE r.val
            /\ retMat' = <<>>
    /\ UNCHANGED <<pvars, ovars, fvars, lvars, gvars>>

CallModeProx ==
    /\ oState = "built"
    /\ callName = "none"
    /\ \E X \in FacadeInputs, t \in ProxSteps :
        LET r == mode_prox(X, t)
        IN  /\ callName' = "mode_prox"
            /\ callX' = X
            /\ callT' = t
            /\ retNone' = r.none
            /\ retNum' = Zero
            /\ retMat' = r.val
    /\ UNCHANGED <<pvars, ovars, fvars, lvars, gvars>>

NextFacade ==
    \/ Construct
    \/ CallModeRegularizer
    \/ CallModeProx

SpecFacade == InitFacade /\ [][NextFacade]_vars

----------------------------------------------------------------------------
(* sbopdmd.py: SparseBOPDMD.fit, SparseBOPDMDOperator._variable_projection
   and SparseBOPDMD.mask.

   fit runs on a constructed object.  The numerical sub-solves (the least
   squares start, _compute_B, _compute_alpha_levmarq, get_objective) depend
   on the data and on the exponential basis; their results are chosen from
   small sets, under what the code fixes about them: only the sampled
   columns of B change in an iteration, and the Levenberg-Marquardt step
   returns alpha_0 or another vector.  Feature indices are 1-based here,
   0-based in the code. *)

\* Number of features (rows of X, columns of B).
NFeat == 2

\* Largest maxiter a caller passes.
MaxIter == 3

\* np.squeeze on a shape: the dimensions of size 1 are removed.
Squeeze(shape) == SelectSeq(shape, LAMBDA d : d # 1)

\* int(x) for a rational x >= 0.
IntOf(x) == x[1] \div x[2]

Min(a, b) == IF a <= b THEN a ELSE b

\* Shapes of the time vector t a caller passes: a scalar, one time point,
\* vectors of 2 and 3 points, a row of 3 points, a 3 x 2 array.
TShapes == { <<>>, <<1>>, <<2>>, <<3>>, <<1, 3>>, <<3, 2>> }

\* Numbers of snapshots (columns of X).
SnapshotCounts == {1, 3}

\* proj_basis and init_alpha as the caller passes them: None, or an array
\* with the given number of columns (entries).
ProjBasisArgs ==
    { [kind |-> "None"],
      [kind |-> "ndarray", ndim |-> 2, ncols |-> 1],
      [kind |-> "ndarray", ndim |-> 2, ncols |-> 2] }

InitAlphaArgs ==
    { [kind |-> "None"],
      [kind |-> "ndarray", ndim |-> 1, len |-> 1],
      [kind |-> "ndarray", ndim |-> 1, len |-> 2] }

\* Columns of B: one mode (svd_rank = 1), entries 0 or 4i.
FitCols == { <<CZero>>, <<CInt(0, 4)>> }

FitMatrices == {FromCols(cs) : cs \in [1..NFeat -> FitCols]}

\* init_B as the caller passes it: None, or a matrix (here one with an
\* all-zero column, and one without).
InitBArgs ==
    { [none |-> TRUE, val |-> <<>>],
      [none |-> FALSE, val |-> FromCols([j \in 1..NFeat |->
                                  IF j = 1 THEN <<CZero>> ELSE <<CInt(0, 4)>>])],
      [none |-> FALSE, val |-> FromCols([j \in 1..NFeat |-> <<CInt(0, 4)>>])] }

SamplingRatios == {Rat(1, 2), One}

\* Eigenvalue vectors alpha.
Alphas == {"alpha_0", "alpha_1"}

\* "alpha = self._push_eigenvalues(init_alpha)": whether the array returned
\* is the array passed. _push_eigenvalues is inherited; with no eigenvalue
\* constraints it returns its argument as is.
PushReturnsArgument == BOOLEAN

\* Objective values, and nonzero iteration errors (below and above tol).
Objectives == {One, Rat(2, 1)}

Errors == {Rat(1, 10000000), One}

InitFit ==
    /\ IdlePrim
    /\ IdleLevMarq
    /\ IdleProxGrad
    /\ self_mode_regularizer = StrArg("l0")
    /\ self_mode_prox = NoneArg
    /\ arg_regularizer_params = [none |-> TRUE, dict |-> <<>>]
    /\ self_regularizer_params = FilledParams(arg_regularizer_params)
    /\ oState = "built"
    /\ oWarned = FALSE
    /\ callName = "none"
    /\ callX = <<>>
    /\ callT = Zero
    /\ retNone = FALSE
    /\ retNum = Zero
    /\ retMat = <<>>
    /\ fit_state = "constructed"
    /\ X_shape \in {<<NFeat, m>> : m \in SnapshotCounts}
    /\ t_shape \in TShapes
    /\ self_time = <<"unset">>
    /\ self_svd_rank = 0
    /\ self_proj_basis \in ProjBasisArgs
    /\ self_init_alpha \in InitAlphaArgs
    /\ self_init_B \in InitBArgs
    /\ self_use_mask \in BOOLEAN
    /\ self_sampling_ratio \in SamplingRatios
    /\ self_maxiter \in 0..MaxIter
    /\ self_tol = Rat(1, 1000000)
    /\ self_eps_stall = Rat(1, 1000)
    /\ self_Atilde = FALSE
    /\ self_unmasked_features = [none |-> TRUE, inds |-> {}]
    /\ loop_B = <<>>
    /\ loop_alpha = "unset"
    /\ itr = 0
    /\ all_obj = <<>>
    /\ all_err = <<>>
    /\ converged = FALSE
    /\ stalled = FALSE
    /\ retMask = <<>>
    /\ sampled_inds = {}
    /\ init_alpha = "unset"
    /\ alpha_is_init_alpha = FALSE

\* What fit raises before the operator is constructed ("none": nothing).
\* len() of a zero-dimensional array raises TypeError.
FitError(time, rank) ==
    IF Len(time) > 1 THEN "ValueError"
    ELSE IF Len(time) = 0 THEN "TypeError"
    ELSE IF X_shape[2] # time[1] THEN "ValueError"
    ELSE IF self_proj_basis.kind # "None"
            /\ (self_proj_basis.kind # "ndarray" \/ self_proj_basis.ndim # 2
                \/ self_proj_basis.ncols # rank)
         THEN "ValueError"
    ELSE IF self_init_alpha.kind # "None"
            /\ (self_init_alpha.kind # "ndarray" \/ self_init_alpha.ndim > 1
                \/ self_init_alpha.len # rank)
         THEN "ValueError"
    ELSE "none"

\* compute_rank: the rank of the fit (one mode, the height of FitCols).
compute_rank == Len(CHOOSE c \in FitCols : TRUE)

\* fit up to the first iteration of the variable projection: the checks, the
\* operator's construction, and the start values of _variable_projection.
\* With maxiter = 0 the loop body never runs and fit is over.
Fit ==
    /\ fit_state = "constructed"
    /\ LET time == Squeeze(t_shape)
           rank == compute_rank
           err  == FitError(time, rank)
       IN  /\ self_time' = time
           /\ IF Len(time) = 1 /\ X_shape[2] = time[1]
              THEN self_svd_rank' = rank
              ELSE UNCHANGED self_svd_rank
           /\ IF err # "none"
              THEN /\ fit_state' = err
                   /\ UNCHANGED <<self_proj_basis, self_init_alpha, self_Atilde,
                                  loop_B, loop_alpha, init_alpha, alpha_is_init_alpha>>
              ELSE /\ fit_state' = IF self_maxiter = 0 THEN "fitted" ELSE "varpro"
                   /\ self_proj_basis' = [kind |-> "ndarray", ndim |-> 2, ncols |-> rank]
                   /\ self_init_alpha' = [kind |-> "ndarray", ndim |-> 1, len |-> rank]
                   /\ self_Atilde' = TRUE
                   /\ init_alpha' = "alpha_0"
                   /\ alpha_is_init_alpha' \in PushReturnsArgument
                   /\ loop_alpha' = "alpha_0"
                   /\ IF self_init_B.none
                      THEN loop_B' \in FitMatrices
                      ELSE loop_B' = self_init_B.val
    /\ UNCHANGED <<X_shape, t_shape, self_init_B, self_use_mask, self_sampling_ratio,
                   self_maxiter, self_tol, self_eps_stall, self_unmasked_features,
                   itr, all_obj, all_err, converged, stalled, retMask, sampled_inds>>
    /\ UNCHANGED <<pvars, ovars, cvars, lvars, gvars>>

\* Mutant of Choice: sampling with replacement (`size` draws may hit fewer
\* than `size` distinct entries).
Choice_with_replacement(a, size) ==
    {S \in SUBSET a : Cardinality(S) <= size /\ (Cardinality(S) = 0 <=> size = 0)}

\* "self._sampling_rng.choice(a, size=size, replace=False)": the samples it
\* can return, `size` entries of `a` with none taken twice. A sample is kept
\* as the set of its entries: its order has no effect on the update of B,
\* which reads and writes the columns in the same order.
Choice(a, size) == {S \in SUBSET a : Cardinality(S) = size}

\* Mutant of WithColumns: the columns that were not sampled are zeroed.
WithColumns_only(M, inds, cols) ==
    Tup([i \in 1..NRowsOf(M) |->
        Tup([j \in 1..NColsOf(M) |->
            IF j \in inds THEN cols[j][i] ELSE CZero])])

\* "B_new = np.copy(B); B_new[:, sampled_inds] = ...": B with the columns in
\* `inds` replaced by those of `cols`.
WithColumns(M, inds, cols) ==
    Tup([i \in 1..NRowsOf(M) |->
        Tup([j \in 1..NColsOf(M) |->
            IF j \in inds THEN cols[j][i] ELSE M[i][j]])])

\* "converged = all_err[itr] < self._tol".
IsConverged(err) == RLt(err, self_tol)

\* Mutant of IsStalled: the first pass counts as stalled.
IsStalled_from_first(i, objs) ==
    i = 0 \/ RLt(RSub(objs[i], objs[i + 1]), RMul(self_eps_stall, objs[i]))

\* Mutant of IsStalled: the absolute value of the difference is compared.
IsStalled_abs(i, objs) ==
    i > 0 /\ RLt(RAbs(RSub(objs[i], objs[i + 1])), RMul(self_eps_stall, objs[i]))

\* "stalled = (itr > 0) and (all_obj[itr - 1] - all_obj[itr]
\*            < self._eps_stall * all_obj[itr - 1])", for itr = i and objs the
\* written part of all_obj (objs[i + 1] is all_obj[itr]).
IsStalled(i, objs) ==
    i > 0 /\ RLt(RSub(objs[i], objs[i + 1]), RMul(self_eps_stall, objs[i]))

\* One pass of the loop "for itr in range(self._maxiter)"; the pass that
\* ends the loop (converged, stalled, or the last of the range) ends fit.
VarProIteration ==
    /\ fit_state = "varpro"
    /\ itr < self_maxiter
    /\ LET N == NColsOf(loop_B)
           valid_feature_inds == IF self_use_mask THEN get_nonzero_cols(loop_B) ELSE 1..N
           sample_size == Min(Cardinality(valid_feature_inds),
                              IntOf(RMul(Rat(N, 1), self_sampling_ratio)))
       IN  /\ self_unmasked_features' =
                  IF self_use_mask
                  THEN [none |-> FALSE, inds |-> valid_feature_inds]
                  ELSE self_unmasked_features
           /\ \E inds \in Choice(valid_feature_inds, sample_size) :
              \E cols \in [inds -> FitCols] :
              \E alpha_new \in Alphas :
              \E obj \in Objectives :
              \E e \in Errors :
                 LET B_new == WithColumns(loop_B, inds, cols)
                     err   == IF alpha_new = loop_alpha /\ B_new = loop_B THEN Zero ELSE e
                     conv  == IsConverged(err)
                     stall == IsStalled(itr, Append(all_obj, obj))
                 IN  /\ sampled_inds' = inds
                     /\ all_obj' = Append(all_obj, obj)
                     /\ all_err' = Append(all_err, err)
                     /\ loop_alpha' = alpha_new
                     /\ init_alpha' = IF alpha_is_init_alpha THEN alpha_new
                                                             ELSE init_alpha
                     /\ loop_B' = B_new
                     /\ converged' = conv
                     /\ stalled' = stall
                     /\ itr' = itr + 1
                     /\ fit_state' = IF conv \/ stall \/ itr + 1 = self_maxiter
                                     THEN "fitted" ELSE "varpro"
    /\ UNCHANGED <<X_shape, t_shape, self_time, self_svd_rank, self_proj_basis,
                   self_init_alpha, self_init_B, self_use_mask, self_sampling_ratio,
                   self_maxiter, self_tol, self_eps_stall, self_Atilde, retMask,
                   alpha_is_init_alpha>>
    /\ UNCHANGED <<pvars, ovars, cvars, lvars, gvars>>

\* The mask property: ones, with zeros at the operator's unmasked_features;
\* indexing with None ("M[None] = 0.0") sets every entry.
mask ==
    Tup([i \in 1..X_shape[1] |->
        IF self_unmasked_features.none \/ i \in self_unmasked_features.inds
        THEN Zero ELSE One])

\* A read of the mask after a fit.
GetMask ==
    /\ fit_state = "fitted"
    /\ retMask = <<>>
    /\ retMask' = mask
    /\ UNCHANGED <<fit_state, X_shape, t_shape, self_time, self_svd_rank,
                   self_proj_basis, self_init_alpha, self_init_B, self_use_mask,
                   self_sampling_ratio, self_maxiter, self_tol, self_eps_stall,
                   self_Atilde, self_unmasked_features, loop_B, loop_alpha, itr, all_obj,
                   all_err, converged, stalled, sampled_inds, init_alpha,
                   alpha_is_init_alpha>>
    /\ UNCHANGED <<pvars, ovars, cvars, lvars, gvars>>

NextFit ==
    \/ Fit
    \/ VarProIteration
    \/ GetMask

SpecFit == InitFit /\ [][NextFit]_vars

----------------------------------------------------------------------------
(* _compute_alpha_levmarq: the search for the damping parameter lambda.    *)
(* The Jacobian, its QR factorisation and the least-squares solve are not  *)
(* computed: a candidate is known by the lambda it was computed with, and  *)
(* its residual objective is any value of LMObjectives.                    *)

MaxLam == 2

LMObjectives == {Zero, One, Rat(2, 1), PInf, NaN}

InitLambdas == {Rat(1, 2), One}

Lamups == {Rat(1, 2), Rat(2, 1)}

\* a ** j for an integer j >= 0.
RECURSIVE RPow(_, _)
RPow(a, j) == IF j = 0 THEN One ELSE RMul(a, RPow(a, j - 1))

\* The argument alpha_0.
alpha_0 == [from |-> "alpha_0", lam |-> Zero, pushed |-> FALSE]

\* step(_lambda): alpha_0 plus the step computed with the damping lam, passed
\* through self._push_eigenvalues.
step(lam) == [from |-> "step", lam |-> lam, pushed |-> TRUE]

\* Mutant of Improves: a candidate that is as good as alpha_0 is accepted.
Improves_or_equal(objective_new, objective) == RLe(objective_new, objective)

\* "if objective_new < objective".
Improves(objective_new, objective) == RLt(objective_new, objective)

\* The state on entry to "for j in range(maxlam + 1)".
InitLevMarq ==
    /\ IdlePrim
    /\ IdleFacade
    /\ IdleFit
    /\ IdleProxGrad
    /\ lm_state = "searching"
    /\ lm_init_lambda \in InitLambdas
    /\ lm_maxlam \in -1..MaxLam
    /\ lm_lamup \in Lamups
    /\ lm_objective \in LMObjectives
    /\ lm_j = 0
    /\ lm_tried = <<>>
    /\ lm_ret = [from |-> "none", lam |-> Zero, pushed |-> FALSE]

\* One pass of "for j in range(maxlam + 1)".
LMCandidate ==
    /\ lm_state = "searching"
    /\ lm_j <= lm_maxlam
    /\ LET lam       == RMul(lm_init_lambda, RPow(lm_lamup, lm_j))
           alpha_new == step(lam)
       IN  \E objective_new \in LMObjectives :
              /\ lm_tried' = Append(lm_tried, [alpha |-> alpha_new,
                                               objective |-> objective_new])
              /\ IF Improves(objective_new, lm_objective)
                 THEN /\ lm_state' = "returned"
                      /\ lm_ret' = alpha_new
                      /\ UNCHANGED lm_j
                 ELSE /\ lm_j' = lm_j + 1
                      /\ UNCHANGED <<lm_state, lm_ret>>
    /\ UNCHANGED <<lm_init_lambda, lm_maxlam, lm_lamup, lm_objective>>
    /\ UNCHANGED <<pvars, ovars, cvars, fvars, gvars>>

\* The range is exhausted: "return alpha_0".
LMExhausted ==
    /\ lm_state = "searching"
    /\ lm_j > lm_maxlam
    /\ lm_state' = "returned"
    /\ lm_ret' = alpha_0
    /\ UNCHANGED <<lm_init_lambda, lm_maxlam, lm_lamup, lm_objective, lm_j, lm_tried>>
    /\ UNCHANGED <<pvars, ovars, cvars, fvars, gvars>>

NextLevMarq ==
    \/ LMCandidate
    \/ LMExhausted

SpecLevMarq == InitLevMarq /\ [][NextLevMarq]_vars

----------------------------------------------------------------------------
(* accelerated_prox_grad. The callables func_f, func_g, grad_f and prox_g  *)
(* are arguments: the iterate that prox_g returns is any value of          *)
(* PGIterates and the objective any value of PGObjectives. Y, which only   *)
(* feeds grad_f, is not kept.                                              *)

MaxProxIter == 3

\* Iterates X (one entry) and objective values.
PGIterates == {Zero, Rat(1, 4), One}

PGObjectives == {One, Rat(2, 1)}

PGTols == {Rat(-1, 1), Zero, Rat(1, 2), PInf, NaN}

\* Whether "a[i] = ..." finds an entry of an array of `size` entries
\* (IndexError otherwise), for i >= 0.
InBounds(i, size) == 0 <= i /\ i < size

\* The state before "while err >= tol".
InitProxGrad ==
    /\ IdlePrim
    /\ IdleFacade
    /\ IdleFit
    /\ IdleLevMarq
    /\ pg_state = "running"
    /\ pg_tol \in PGTols
    /\ pg_max_iter \in 0..MaxProxIter
    /\ pg_use_restarts \in BOOLEAN
    /\ pg_X \in PGIterates
    /\ pg_t = 0
    /\ pg_iter_count = 0
    /\ pg_err = RAdd(pg_tol, One)
    /\ pg_obj_hist = <<>>
    /\ pg_err_hist = <<>>
    /\ pg_steps = 0
    /\ pg_ret = <<>>

\* One pass of "while err >= tol".
PGStep ==
    /\ pg_state = "running"
    /\ RLe(pg_tol, pg_err)
    /\ \E X_new \in PGIterates, obj \in PGObjectives :
          LET err == RAbs(RSub(pg_X, X_new)) IN
          /\ pg_steps' = pg_steps + 1
          /\ pg_err' = err
          /\ IF ~InBounds(pg_iter_count, pg_max_iter)
             THEN /\ pg_state' = "IndexError"
                  /\ UNCHANGED <<pg_X, pg_t, pg_iter_count, pg_obj_hist, pg_err_hist,
                                 pg_ret>>
             ELSE /\ pg_obj_hist' = Append(pg_obj_hist, obj)
                  /\ pg_err_hist' = Append(pg_err_hist, err)
                  /\ pg_X' = X_new
                  /\ pg_t' = IF /\ pg_use_restarts
                                /\ pg_iter_count > 1
                                /\ RLt(pg_obj_hist[pg_iter_count], obj)
                             THEN 0 ELSE pg_t + 1
                  /\ pg_iter_count' = pg_iter_count + 1
                  /\ IF pg_iter_count + 1 >= pg_max_iter
                     THEN /\ pg_state' = "returned"
                          /\ pg_ret' = <<X_new, pg_obj_hist', pg_err_hist'>>
                     ELSE UNCHANGED <<pg_state, pg_ret>>
    /\ UNCHANGED <<pg_tol, pg_max_iter, pg_use_restarts>>
    /\ UNCHANGED <<pvars, ovars, cvars, fvars, lvars>>

\* "while err >= tol" is false: the return after the loop.
PGExit ==
    /\ pg_state = "running"
    /\ ~RLe(pg_tol, pg_err)
    /\ pg_state' = "returned"
    /\ pg_ret' = <<pg_X, pg_obj_hist, pg_err_hist>>
    /\ UNCHANGED <<pg_tol, pg_max_iter, pg_use_restarts, pg_X, pg_t, pg_iter_count,
                   pg_err, pg_obj_hist, pg_err_hist, pg_steps>>
    /\ UNCHANGED <<pvars, ovars, cvars, fvars, lvars>>

NextProxGrad ==
    \/ PGStep
    \/ PGExit

SpecProxGrad == InitProxGrad /\ [][NextProxGrad]_vars

----------------------------------------------------------------------------
(* Vocabulary of the properties. *)

Entries(X) == (1..NRowsOf(X)) \X (1..NColsOf(X))

ColIsZero(X, j) == \A i \in 1..NRowsOf(X) : X[i][j] = CZero

ColIsNaN(X, j) == \A i \in 1..NRowsOf(X) : X[i][j] = <<NaN, NaN>>

\* The Euclidean norm of column j.
ColNorm(X, j) == RSqrt(RSumSeq(Tup([i \in 1..NRowsOf(X) |-> CAbs2(X[i][j])])))

\* Column j of Y is column j of X times the real factor f.
ColIsScaled(Y, X, j, f) == \A i \in 1..NRowsOf(X) : Y[i][j] = CMulR(X[i][j], f)

\* The value a caller's regularizer_params give to `key`, else `default`.
ParamOr(key, default) ==
    IF ~arg_regularizer_params.none /\ key \in DOMAIN arg_regularizer_params.dict
    THEN arg_regularizer_params.dict[key]
    ELSE default

IsPreset(name) == self_mode_regularizer = StrArg(name)

\* Entries with |x|^2 < 2*g are 0, all others unchanged.
IsHardThresholded(Y, X, g) ==
    \A p \in Entries(X) :
        LET x == X[p[1]][p[2]]
        IN  Y[p[1]][p[2]] = IF RLt(CAbs2(x), RMul(Rat(2, 1), g)) THEN CZero ELSE x

\* Each entry keeps its direction and has its modulus reduced by g, floored at 0.
IsSoftThresholded(Y, X, g) ==
    \A p \in Entries(X) :
        LET x == X[p[1]][p[2]]
        IN  Y[p[1]][p[2]] =
                IF RLe(CAbs(x), g) THEN CZero
                ELSE CMulR(x, RDiv(RSub(CAbs(x), g), CAbs(x)))

\* Columns of norm below g are zeroed; the others (of nonzero norm) are shrunk
\* by the factor 1 - g/norm.
IsGroupLassoed(Y, X, g) ==
    \A j \in 1..NColsOf(X) :
        LET n == ColNorm(X, j)
        IN  /\ RLt(n, g) => ColIsZero(Y, j)
            /\ (~RLt(n, g) /\ n # Zero) =>
                   ColIsScaled(Y, X, j, RDiv(RSub(n, g), n))

----------------------------------------------------------------------------
(* C1 *)

\* C1: with preset "l0", "l1" or "l2", parameter lambda and no mode_prox of
\* the caller's, mode_prox(X, t) is the hard threshold, the soft threshold,
\* respectively the group lasso of X with step lambda * t.
C1_PresetProx ==
    (callName = "mode_prox" /\ self_mode_prox = NoneArg) =>
        LET g == RMul(ParamOr("lambda", One), callT)
        IN  /\ IsPreset("l0") => ~retNone /\ IsHardThresholded(retMat, callX, g)
            /\ IsPreset("l1") => ~retNone /\ IsSoftThresholded(retMat, callX, g)
            /\ IsPreset("l2") => ~retNone /\ IsGroupLassoed(retMat, callX, g)

\* The tests' scenario: "l1" with lambda = 5 and t = 1 on A keeps the two
\* extreme columns, each entry's modulus reduced by 5.
C1_Witness ==
    /\ callName = "mode_prox"
    /\ IsPreset("l1")
    /\ self_mode_prox = NoneArg
    /\ ParamOr("lambda", One) = Rat(5, 1)
    /\ callT = One
    /\ callX = TestA
    /\ retMat = FromCols(<< <<CInt(-55, 0), CInt(0, -75)>>,
                            <<CZero, CZero>>, <<CZero, CZero>>, <<CZero, CZero>>,
                            <<CInt(55, 0), CInt(0, 75)>> >>)

----------------------------------------------------------------------------
(* C2 *)

NonzeroCount(X) == Cardinality({p \in Entries(X) : X[p[1]][p[2]] # CZero})

SumAbs(X) ==
    RSumSeq(Tup([i \in 1..NRowsOf(X) |->
        RSumSeq(Tup([j \in 1..NColsOf(X) |-> CAbs(X[i][j])]))]))

SumColNorms(X) == RSumSeq(Tup([j \in 1..NColsOf(X) |-> ColNorm(X, j)]))

SumSquares(X) ==
    RSumSeq(Tup([i \in 1..NRowsOf(X) |->
        RSumSeq(Tup([j \in 1..NColsOf(X) |-> CAbs2(X[i][j])]))]))

\* C2: for every preset, mode_regularizer(X) is lambda times the number of
\* nonzero entries ("l0"), the sum of moduli ("l1"), the sum of the column
\* norms ("l2"), and for "l02" / "l12" the "l0" / "l1" value plus lambda_2
\* times the sum of squared moduli; lambda and lambda_2 are the caller's
\* values, or 1.0 and 1e-6 when the key is missing.
C2_PresetRegularizer ==
    (callName = "mode_regularizer" /\ isinstance_str(self_mode_regularizer)) =>
        LET lam  == ParamOr("lambda", One)
            lam2 == ParamOr("lambda_2", Rat(1, 1000000))
            l0   == RMul(lam, Rat(NonzeroCount(callX), 1))
            l1   == RMul(lam, SumAbs(callX))
            sq   == RMul(lam2, SumSquares(callX))
        IN  /\ ~retNone
            /\ IsPreset("l0") => retNum = l0
            /\ IsPreset("l1") => retNum = l1
            /\ IsPreset("l2") => retNum = RMul(lam, SumColNorms(callX))
            /\ IsPreset("l02") => retNum = RAdd(l0, sq)
            /\ IsPreset("l12") => retNum = RAdd(l1, sq)

\* "l12" with lambda = 5 and the default lambda_2 on A:
\* 5 * 282.8 + 1e-6 * 20002 = 1414.020002.
C2_Witness ==
    /\ callName = "mode_regularizer"
    /\ IsPreset("l12")
    /\ ~arg_regularizer_params.none
    /\ DOMAIN arg_regularizer_params.dict = {"lambda"}
    /\ callX = TestA
    /\ retNum = Rat(707010001, 500000)

----------------------------------------------------------------------------
(* C3 *)

\* C3: the constructor raises ValueError whenever mode_regularizer is a
\* string that is none of the five presets, and whenever it is a function
\* and no mode_prox is given; with a preset name, or with a function and a
\* mode_prox, it does not raise.
C3_ConstructorErrors ==
    oState \in {"built", "ValueError"} =>
        /\ (isinstance_str(self_mode_regularizer)
            /\ self_mode_regularizer.name \notin {"l0", "l1", "l2", "l02", "l12"})
               => oState = "ValueError"
        /\ (self_mode_regularizer = FunctionArg /\ self_mode_prox = NoneArg)
               => oState = "ValueError"
        /\ (isinstance_str(self_mode_regularizer)
            /\ self_mode_regularizer.name \in {"l0", "l1", "l2", "l02", "l12"})
               => oState = "built"
        /\ (self_mode_regularizer = FunctionArg /\ self_mode_prox # NoneArg)
               => oState = "built"

\* A custom function without mode_prox was refused.
C3_Witness ==
    /\ oState = "ValueError"
    /\ self_mode_regularizer = FunctionArg
    /\ self_mode_prox = NoneArg

----------------------------------------------------------------------------
(* C4 *)

\* fit was called and is past its checks, one way or the other.
FitCalled == fit_state \notin {"idle", "constructed"}

\* The time vector does not squeeze to one dimension, or its length is not
\* the number of columns of X.
BadTimeVector ==
    \/ Len(Squeeze(t_shape)) # 1
    \/ Squeeze(t_shape)[1] # X_shape[2]

\* C4 (as claimed): for every t that does not squeeze to exactly one
\* dimension (more than one dimension left, or none) and for every t whose
\* length is not the number of columns of X, fit raises ValueError, before
\* the operator is constructed and before any iteration runs.
C4_AsClaimed ==
    (FitCalled /\ BadTimeVector) =>
        fit_state = "ValueError" /\ ~self_Atilde /\ itr = 0

----------------------------------------------------------------------------
(* C5 *)

\* The columns of M that are not all zero.
NonzeroColumns(M) == {j \in 1..NColsOf(M) : ~ColIsZero(M, j)}

\* C5 (as claimed): after a fit with use_mask, unmasked_features is the set
\* of nonzero columns of the B the run returned, and the mask is 1.0 at the
\* features whose column of that B is zero and 0.0 at the others.
C5_AsClaimed ==
    (fit_state = "fitted" /\ self_use_mask) =>
        /\ ~self_unmasked_features.none
        /\ self_unmasked_features.inds = NonzeroColumns(loop_B)
        /\ retMask # <<>> =>
               \A j \in 1..NColsOf(loop_B) :
                   retMask[j] = IF ColIsZero(loop_B, j) THEN One ELSE Zero

----------------------------------------------------------------------------
(* C6 *)

\* C6 (as claimed): every constructed object holds one of the five presets or
\* a (function, function) pair, and so both methods return a number or a
\* matrix, never None.
C6_AsClaimed ==
    /\ oState = "built" =>
          \/ \E n \in {"l0", "l1", "l2", "l02", "l12"} : IsPreset(n)
          \/ (self_mode_regularizer = FunctionArg /\ self_mode_prox = FunctionArg)
    /\ callName # "none" => ~retNone

----------------------------------------------------------------------------
(* C7 *)

\* The matrix the preset's own proximal operator gives for step t.
IsPresetProx(Y, X, t) ==
    LET lam  == ParamOr("lambda", One)
        lam2 == ParamOr("lambda_2", Rat(1, 1000000))
    IN  /\ IsPreset("l0") => IsHardThresholded(Y, X, RMul(lam, t))
        /\ IsPreset("l1") => IsSoftThresholded(Y, X, RMul(lam, t))
        /\ IsPreset("l2") => IsGroupLassoed(Y, X, RMul(lam, t))
        /\ IsPreset("l02") => Y = scaled_hard_threshold(X, t, lam, lam2)
        /\ IsPreset("l12") => Y = scaled_soft_threshold(X, t, lam, lam2)

\* C7 (as claimed): with a preset name, mode_prox applies the preset's own
\* proximal operator however the object was constructed, also when the
\* caller passed a mode_prox.
C7_AsClaimed ==
    (callName = "mode_prox" /\ isinstance_str(self_mode_regularizer)) =>
        ~retNone /\ IsPresetProx(retMat, callX, callT)

----------------------------------------------------------------------------
(* C8 *)

IsProxOp(op) == op \in {"hard_threshold", "soft_threshold", "group_lasso"}

\* C8 (as claimed): each of the three operators is idempotent for a fixed
\* gamma: the second application returns its argument.
C8_AsClaimed == (IsProxOp(pOp) /\ pCount >= 2) => pCur = pPrev

\* C8 (amended): hard_threshold is idempotent; k applications of
\* soft_threshold or group_lasso with step gamma give what one application
\* with step k * gamma gives.
C8_Amended ==
    LET kg == RMul(Rat(pCount, 1), pGamma)
    IN  /\ (pOp = "hard_threshold" /\ pCount >= 2) => pCur = pPrev
        /\ (pOp = "soft_threshold" /\ pCount >= 2) => IsSoftThresholded(pCur, pX, kg)
        /\ (pOp = "group_lasso" /\ pCount >= 2) =>
               /\ IsGroupLassoed(pCur, pX, kg)
               /\ \A j \in 1..NColsOf(pX) : ColNorm(pX, j) = kg => ColIsZero(pCur, j)

\* A second soft threshold shrank an entry again: 3 -> 2 -> 1 with gamma 1.
C8_Witness ==
    /\ pOp = "soft_threshold"
    /\ pCount = 2
    /\ pGamma = One
    /\ pX[1][1] = CInt(3, 0)
    /\ pPrev[1][1] = CInt(2, 0)
    /\ pCur[1][1] = CInt(1, 0)

----------------------------------------------------------------------------
(* C9 *)

AfterGroupLasso == pOp = "group_lasso" /\ pCount >= 1

\* C9 (as claimed): a column of group_lasso(X, gamma) is entirely zero if and
\* only if the column's norm is strictly below gamma; every other column is
\* the column of X scaled by 1 - gamma/norm.
C9_AsClaimed ==
    AfterGroupLasso =>
        \A j \in 1..NColsOf(pPrev) :
            LET n == ColNorm(pPrev, j)
            IN  /\ ColIsZero(pCur, j) <=> RLt(n, pGamma)
                /\ ~RLt(n, pGamma) =>
                       ColIsScaled(pCur, pPrev, j, RSub(One, RDiv(pGamma, n)))

\* C9 (amended): a column of the result is entirely zero if and only if
\* gamma > 0 and the column's norm is at most gamma; a column of nonzero norm
\* not below gamma is scaled by 1 - gamma/norm; a zero column with gamma = 0
\* comes back as NaN (the factor is 0/0).
C9_Amended ==
    AfterGroupLasso =>
        \A j \in 1..NColsOf(pPrev) :
            LET n == ColNorm(pPrev, j)
            IN  /\ ColIsZero(pCur, j) <=> (RLe(n, pGamma) /\ RLt(Zero, pGamma))
                /\ (~RLt(n, pGamma) /\ n # Zero) =>
                       ColIsScaled(pCur, pPrev, j, RSub(One, RDiv(pGamma, n)))
                /\ (n = Zero /\ pGamma = Zero) => ColIsNaN(pCur, j)

\* A column of norm exactly gamma = 5 was returned as zeros.
C9_Witness ==
    /\ pOp = "group_lasso"
    /\ pCount = 1
    /\ pGamma = Rat(5, 1)
    /\ ColNorm(pPrev, 1) = Rat(5, 1)
    /\ ColIsZero(pCur, 1)

----------------------------------------------------------------------------
(* C10 *)

\* C10 (as claimed): no primitive divides by zero, the result is finite, and
\* a zero-norm column (group_lasso) or zero-amplitude row (split_B) comes
\* back as exact zeros with amplitude 0.
C10_AsClaimed ==
    pCount >= 1 =>
        /\ ~pDivZero
        /\ MatIsFinite(pCur)
        /\ pOp = "group_lasso" =>
               \A j \in 1..NColsOf(pPrev) : ColIsZero(pPrev, j) => ColIsZero(pCur, j)
        /\ pOp = "split_B" =>
               \A i \in 1..NRowsOf(pPrev) :
                   (\A j \in 1..NColsOf(pPrev) : pPrev[i][j] = CZero) =>
                       /\ \A j \in 1..NColsOf(pPrev) : pCur[i][j] = CZero
                       /\ pAmp[i] = Zero

----------------------------------------------------------------------------
(* C11 *)

\* mode_prox was called on a preset object that uses the preset's prox.
PresetProxCalled(name) ==
    callName = "mode_prox" /\ IsPreset(name) /\ ~isfunction(self_mode_prox)

\* gamma * alpha and 1 + 2 * gamma * beta of the call: mode_prox passes
\* gamma = t, alpha = lambda, beta = lambda_2.
CallStep == RMul(callT, ParamOr("lambda", One))

CallGrowth ==
    RAdd(One, RMul(RMul(Rat(2, 1), callT), ParamOr("lambda_2", Rat(1, 1000000))))

\* C11 (as claimed): a nonzero entry x is zeroed by the scaled hard threshold
\* exactly when the hard threshold with step gamma*alpha zeroes it
\* (|x|^2 < 2*gamma*alpha), and by the scaled soft threshold exactly when the
\* soft threshold with step gamma*alpha zeroes it (|x| <= gamma*alpha).
C11_AsClaimed ==
    /\ PresetProxCalled("l02") =>
           \A p \in Entries(callX) :
               LET x == callX[p[1]][p[2]]
               IN  x # CZero =>
                       (retMat[p[1]][p[2]] = CZero
                            <=> RLt(CAbs2(x), RMul(Rat(2, 1), CallStep)))
    /\ PresetProxCalled("l12") =>
           \A p \in Entries(callX) :
               LET x == callX[p[1]][p[2]]
               IN  x # CZero =>
                       (retMat[p[1]][p[2]] = CZero <=> RLe(CAbs(x), CallStep))

\* C11 (amended): with scale = 1/(1 + 2*gamma*beta), the scaled hard
\* threshold zeroes the entries with |x|^2 < 2*gamma*alpha/scale (the hard
\* threshold with step gamma*alpha/scale) and returns scale*x for the others;
\* the scaled soft threshold zeroes the entries with |x| <= gamma*alpha and
\* returns scale * x * (|x| - gamma*alpha)/|x| for the others.
C11_Amended ==
    /\ PresetProxCalled("l02") =>
           \A p \in Entries(callX) :
               LET x == callX[p[1]][p[2]]
               IN  retMat[p[1]][p[2]] =
                       IF RLt(CAbs2(x), RMul(RMul(Rat(2, 1), CallStep), CallGrowth))
                       THEN CZero
                       ELSE CMulR(x, RDiv(One, CallGrowth))
    /\ PresetProxCalled("l12") =>
           \A p \in Entries(callX) :
               LET x == callX[p[1]][p[2]]
               IN  retMat[p[1]][p[2]] =
                       IF RLe(CAbs(x), CallStep)
                       THEN CZero
                       ELSE CMulR(x, RDiv(RSub(CAbs(x), CallStep),
                                          RMul(CAbs(x), CallGrowth)))

\* The scaled hard threshold zeroed an entry of modulus 1 that the hard
\* threshold with step gamma*alpha = 1/2 keeps (1 + 2*gamma*beta = 6).
C11_Witness ==
    /\ PresetProxCalled("l02")
    /\ CallStep = Rat(1, 2)
    /\ CallGrowth = Rat(6, 1)
    /\ callX[1][1] = CInt(1, 0)
    /\ retMat[1][1] = CZero

----------------------------------------------------------------------------
(* C12 *)

\* C12: every pass of the loop starts with itr < maxiter; after it,
\* converged is "the pass's error is below tol" and stalled is "itr > 0 and
\* obj[itr-1] - obj[itr] < eps_stall * obj[itr-1]" (never true on the first
\* pass); the run ends after the pass exactly when it converged, stalled or
\* was the last of the maxiter passes, and no pass follows the end; the
\* returned flag converged is the value of that last pass.
C12_LoopTermination ==
    [][ /\ itr' # itr =>
              /\ fit_state = "varpro" /\ itr < self_maxiter /\ itr' = itr + 1
              /\ Len(all_obj') = itr' /\ Len(all_err') = itr'
              /\ converged' = RLt(all_err'[itr'], self_tol)
              /\ stalled' = (itr > 0
                             /\ RLt(RSub(all_obj'[itr], all_obj'[itr']),
                                    RMul(self_eps_stall, all_obj'[itr])))
              /\ (itr = 0 => ~stalled')
              /\ (fit_state' = "fitted")
                     <=> (converged' \/ stalled' \/ itr' = self_maxiter)
              /\ fit_state' \in {"varpro", "fitted"}
        /\ fit_state = "fitted" =>
              /\ itr' = itr /\ converged' = converged /\ fit_state' = "fitted"
              /\ converged = (itr > 0 /\ RLt(all_err[itr], self_tol))
      ]_vars

\* The second of three passes stalled without converging and ended the run
\* with converged = False.
C12_Witness ==
    /\ fit_state = "fitted"
    /\ self_maxiter = 3
    /\ itr = 2
    /\ stalled
    /\ ~converged

----------------------------------------------------------------------------
(* C13 *)

\* A pass after the first whose objective is larger than that of the pass
\* before it, which was positive, with eps_stall >= 0.
Worsened ==
    /\ itr > 1
    /\ Len(all_obj) = itr
    /\ RLt(Zero, all_obj[itr - 1])
    /\ RLt(all_obj[itr - 1], all_obj[itr])
    /\ ~RLt(self_eps_stall, Zero)

\* C13 as claimed: a pass whose objective worsened is not flagged as
\* stalled, and the loop goes on unless the pass converged or was the last.
C13_AsClaimed ==
    Worsened =>
        /\ ~stalled
        /\ (fit_state = "fitted") <=> (converged \/ itr = self_maxiter)

\* C13 amended: a pass whose objective worsened is always flagged as
\* stalled, and the run ends with that pass.
C13_Amended ==
    Worsened => stalled /\ fit_state = "fitted"

\* The objective went from 1 to 2 in the second of three passes, which did
\* not converge: the run is over after two passes.
C13_Witness ==
    /\ Worsened
    /\ itr = 2
    /\ self_maxiter = 3
    /\ all_obj = <<One, Rat(2, 1)>>
    /\ ~converged
    /\ fit_state = "fitted"

----------------------------------------------------------------------------
(* C14 *)

\* The residual objective of the alpha that the update returned.
ReturnedObjective ==
    IF lm_ret = alpha_0 THEN lm_objective ELSE lm_tried[Len(lm_tried)].objective

\* C14: the candidates computed are those of lambda = init_lambda * lamup^j
\* for j = 0, 1, ... in this order, at most maxlam + 1 of them, each one
\* passed through the eigenvalue constraints; none but the last computed has
\* an objective strictly below that of alpha_0; the update returns the last
\* one computed if its objective is strictly below, and alpha_0 after all
\* maxlam + 1 candidates failed; the objective of what is returned is never
\* above that of alpha_0.
C14_DampingSearch ==
    LET n == Len(lm_tried) IN
    /\ n <= (IF lm_maxlam < 0 THEN 0 ELSE lm_maxlam + 1)
    /\ \A k \in 1..n :
          /\ lm_tried[k].alpha.from = "step"
          /\ lm_tried[k].alpha.lam = RMul(lm_init_lambda, RPow(lm_lamup, k - 1))
          /\ lm_tried[k].alpha.pushed
    /\ \A k \in 1..(n - 1) : ~RLt(lm_tried[k].objective, lm_objective)
    /\ lm_state = "returned" =>
          /\ IF n > 0 /\ RLt(lm_tried[n].objective, lm_objective)
             THEN lm_ret = lm_tried[n].alpha
             ELSE lm_ret = alpha_0 /\ n = (IF lm_maxlam < 0 THEN 0 ELSE lm_maxlam + 1)
          /\ ~RLt(lm_objective, ReturnedObjective)
    /\ lm_state = "searching" => n = lm_j

\* With maxlam = 2 the first candidate was as good as alpha_0 and the second
\* better: the second is returned and the third is never computed.
C14_Witness ==
    /\ lm_state = "returned"
    /\ lm_maxlam = 2
    /\ lm_objective = One
    /\ Len(lm_tried) = 2
    /\ lm_tried[1].objective = One
    /\ lm_tried[2].objective = Zero
    /\ lm_ret = step(RMul(lm_init_lambda, lm_lamup))

----------------------------------------------------------------------------
(* C15 *)

\* floor(n * r) for a ratio r in [0, 1].
FloorOfShare(n, r) ==
    CHOOSE k \in 0..n :
        /\ RLe(Rat(k, 1), RMul(Rat(n, 1), r))
        /\ k = n \/ RLt(RMul(Rat(n, 1), r), Rat(k + 1, 1))

\* The candidate columns of a pass that starts with the matrix M.
Candidates(M) ==
    IF self_use_mask THEN NonzeroColumns(M) ELSE 1..NColsOf(M)

\* C15: in every pass the sampled indices are
\* min(number of candidates, floor(N * sampling_ratio)) distinct indices of
\* the candidate set (every column without masking, the nonzero columns of
\* the current B with masking), and a column of B that was not sampled is
\* the same after the pass.
C15_Sampling ==
    [][ itr' = itr + 1 =>
          LET N == NColsOf(loop_B)
              k == Min(Cardinality(Candidates(loop_B)),
                       FloorOfShare(N, self_sampling_ratio))
          IN  /\ Cardinality(sampled_inds') = k
              /\ sampled_inds' \subseteq Candidates(loop_B)
              /\ \A j \in 1..N :
                    j \notin sampled_inds' =>
                        \A i \in 1..NRowsOf(loop_B) : loop_B'[i][j] = loop_B[i][j]
      ]_vars

\* With masking, sampling_ratio = 1 and one nonzero column among two, the
\* pass sampled that column alone, and zeroed it.
C15_Witness ==
    /\ itr = 1
    /\ self_use_mask
    /\ self_sampling_ratio = One
    /\ NColsOf(loop_B) = 2
    /\ sampled_inds = {2}
    /\ ColIsZero(loop_B, 1)
    /\ loop_B[1][2] = CZero
    /\ ~self_init_B.none
    /\ self_init_B.val[1][2] = CInt(0, 4)

----------------------------------------------------------------------------
(* C16 *)

\* C16 as claimed: for every tol and every max_iter >= 0 the solver raises
\* nothing and takes at most max_iter proximal steps; when it has returned,
\* it stopped at the first step with an error below tol or at the cap, and
\* both histories have one entry per step taken.
C16_AsClaimed ==
    /\ pg_state \in {"idle", "running", "returned"}
    /\ pg_steps <= pg_max_iter
    /\ \A k \in 1..(Len(pg_err_hist) - 1) : ~RLt(pg_err_hist[k], pg_tol)
    /\ pg_state = "returned" =>
          /\ Len(pg_ret[2]) = pg_steps
          /\ Len(pg_ret[3]) = pg_steps
          /\ \/ pg_steps = pg_max_iter
             \/ pg_steps > 0 /\ RLt(pg_err_hist[pg_steps], pg_tol)
             \/ pg_steps = 0 /\ IsNaN(pg_tol)

----------------------------------------------------------------------------
(* C17 *)

\* C17: with masking, a column of B that is zero when a pass starts is not
\* a candidate of the pass (it is not among the unmasked_features the pass
\* records, nor among the sampled indices) and is zero after the pass, so
\* that the same holds of every later pass; and the unmasked_features that
\* a pass records are among those that the pass before it recorded.
C17_ActiveSetShrinks ==
    [][ (self_use_mask /\ itr' = itr + 1) =>
          /\ ~self_unmasked_features'.none
          /\ \A j \in 1..NColsOf(loop_B) :
                ColIsZero(loop_B, j) =>
                    /\ j \notin self_unmasked_features'.inds
                    /\ j \notin sampled_inds'
                    /\ ColIsZero(loop_B', j)
          /\ sampled_inds' \subseteq self_unmasked_features'.inds
          /\ ~self_unmasked_features.none =>
                self_unmasked_features'.inds \subseteq self_unmasked_features.inds
      ]_vars

\* A masked run that started with two nonzero columns: the first pass
\* zeroed column 1, the second pass recorded column 2 alone and left
\* column 1 zero.
C17_Witness ==
    /\ self_use_mask
    /\ itr = 2
    /\ ~self_init_B.none
    /\ NonzeroColumns(self_init_B.val) = {1, 2}
    /\ self_unmasked_features = [none |-> FALSE, inds |-> {2}]
    /\ ColIsZero(loop_B, 1)

----------------------------------------------------------------------------
(* C18 *)

\* C18 as claimed: a pass of the loop leaves the array passed as init_alpha
\* and the configured init_B as they were, whether or not the eigenvalue
\* constraints returned their argument as is.
C18_AsClaimed ==
    [][ itr' = itr + 1 =>
          /\ init_alpha' = init_alpha
          /\ self_init_B' = self_init_B
      ]_vars

====
